---- MODULE Spec2Model ----
(***************************************************************************)
(* Group law of ecc/p384/point.go: affine, Jacobian and homogeneous points *)
(* of a short Weierstrass curve, with add, mixadd, double, completeAdd and *)
(* oddMultiples.  The 384-bit prime field is scaled down to a small prime  *)
(* field; the curve y^2 = x^3 - 3x + b over it has prime order, like       *)
(* P-384.  Coordinates are kept in the Montgomery domain, as in the code.  *)
(***************************************************************************)
EXTENDS Integers, Sequences, FiniteSets

VARIABLES call, pre, mem, aff, tab, misuse

vars == <<call, pre, mem, aff, tab, misuse>>

(***************************************************************************)
(* Field layer (fp384): residues modulo Prime in Montgomery form x*R.      *)
(***************************************************************************)
Prime == 11

MontR == 5

CurveB == 1

Fp == 0 .. (Prime - 1)

MontRInv == CHOOSE r \in Fp : (r * MontR) % Prime = 1

montEncode(a) == (a * MontR) % Prime

montDecode(a) == (a * MontRInv) % Prime

fp384Add(a, b) == (a + b) % Prime

fp384Sub(a, b) == (a + Prime - b) % Prime

fp384Neg(a) == (Prime - a) % Prime

fp384Mul(a, b) == (a * b * MontRInv) % Prime

fp384Sqr(a) == fp384Mul(a, a)

RECURSIVE fpPow(_, _)
fpPow(a, e) == IF e = 0 THEN montEncode(1) ELSE fp384Mul(a, fpPow(a, e - 1))

\* a^(p-2): the inverse of a nonzero element, and zero for zero.
fp384Inv(a) == fpPow(a, Prime - 2)

fp384Cmov(x, y, b) == IF b = 1 THEN y ELSE x

bb == montEncode(CurveB)

(***************************************************************************)
(* Affine points.                                                          *)
(***************************************************************************)
newAffinePoint(X, Y) == [x |-> montEncode(X % Prime), y |-> montEncode(Y % Prime)]

zeroPoint == [x |-> 0, y |-> 0]

aIsZero(ap) == ap.x = 0 /\ ap.y = 0

aNeg(ap) == [ap EXCEPT !.y = fp384Neg(ap.y)]

aToInt(ap) == <<montDecode(ap.x), montDecode(ap.y)>>

toJacobian(ap) ==
    IF aIsZero(ap)
    THEN [x |-> montEncode(1), y |-> montEncode(1), z |-> 0]
    ELSE [x |-> ap.x, y |-> ap.y, z |-> montEncode(1)]

toHomogeneous(ap) ==
    IF aIsZero(ap)
    THEN [x |-> 0, y |-> montEncode(1), z |-> 0]
    ELSE [x |-> ap.x, y |-> ap.y, z |-> montEncode(1)]

(***************************************************************************)
(* Jacobian points: value operations.                                      *)
(***************************************************************************)
jIsZero(P) == P.x # 0 /\ P.y # 0 /\ P.z = 0

neg(P) == [P EXCEPT !.y = fp384Neg(P.y)]

cneg(P, b) ==
    LET mY == fp384Neg(P.y)
    IN  [P EXCEPT !.y = fp384Cmov(P.y, mY, b)]

cmov(P, Q, b) ==
    [x |-> fp384Cmov(P.x, Q.x, b),
     y |-> fp384Cmov(P.y, Q.y, b),
     z |-> fp384Cmov(P.z, Q.z, b)]

toAffine(P) ==
    LET z   == fp384Inv(P.z)
        z2  == fp384Sqr(z)
        ax  == fp384Mul(P.x, z2)
        ay0 == fp384Mul(P.y, z)
        ay  == fp384Mul(ay0, z2)
    IN  [x |-> ax, y |-> ay]

jToHomogeneous(P) ==
    LET hx  == fp384Mul(P.x, P.z)
        hz0 == fp384Sqr(P.z)
        hz  == fp384Mul(hz0, P.z)
    IN  [x |-> hx, y |-> P.y, z |-> hz]

(***************************************************************************)
(* Homogeneous points: value operations.                                   *)
(***************************************************************************)
hIsZero(P) == P.x = 0 /\ P.y # 0 /\ P.z = 0

hCneg(P, b) ==
    LET mY == fp384Neg(P.y)
    IN  [P EXCEPT !.y = fp384Cmov(P.y, mY, b)]

hToAffine(P) ==
    LET z == fp384Inv(P.z)
    IN  [x |-> fp384Mul(P.x, z), y |-> fp384Mul(P.y, z)]

(***************************************************************************)
(* Operations on storage.  st maps a storage name to the point held       *)
(* there; p names the receiver and q, r the operands, which may be the     *)
(* same storage.  Every read of a coordinate is taken from the memory as   *)
(* it is at that statement.                                                *)
(***************************************************************************)
double(P) ==
    LET delta  == fp384Sqr(P.z)
        gamma  == fp384Sqr(P.y)
        alphaA == fp384Sub(P.x, delta)
        alphaB == fp384Add(P.x, delta)
        alphaC == fp384Mul(alphaA, alphaB)
        alpha2 == alphaC
        alphaD == fp384Add(alphaC, alphaC)
        alpha  == fp384Add(alphaD, alpha2)
        beta   == fp384Mul(P.x, gamma)
        xA     == fp384Sqr(alpha)
        beta8A == fp384Add(beta, beta)
        beta8B == fp384Add(beta8A, beta8A)
        beta8  == fp384Add(beta8B, beta8B)
        X3     == fp384Sub(xA, beta8)
        zA     == fp384Add(P.y, P.z)
        zB     == fp384Sqr(zA)
        zC     == fp384Sub(zB, gamma)
        Z3     == fp384Sub(zC, delta)
        betaA  == fp384Add(beta, beta)
        betaB  == fp384Add(betaA, betaA)
        betaC  == fp384Sub(betaB, X3)
        yA     == fp384Mul(alpha, betaC)
        gammaA == fp384Sqr(gamma)
        gammaB == fp384Add(gammaA, gammaA)
        gammaC == fp384Add(gammaB, gammaB)
        gammaD == fp384Add(gammaC, gammaC)
        Y3     == fp384Sub(yA, gammaD)
    IN  [x |-> X3, y |-> Y3, z |-> Z3]

\* add with H = U2 + U1.
addWrongH(st, p, q, r) ==
    IF jIsZero(st[q]) THEN [st EXCEPT ![p] = st[r]]
    ELSE IF jIsZero(st[r]) THEN [st EXCEPT ![p] = st[q]]
    ELSE
    LET Z1Z1 == fp384Sqr(st[q].z)
        Z2Z2 == fp384Sqr(st[r].z)
        U1   == fp384Mul(st[q].x, Z2Z2)
        U2   == fp384Mul(st[r].x, Z1Z1)
        t0   == fp384Mul(st[r].z, Z2Z2)
        S1   == fp384Mul(st[q].y, t0)
        t1   == fp384Mul(st[q].z, Z1Z1)
        S2   == fp384Mul(st[r].y, t1)
        H    == fp384Add(U2, U1)
        HH   == fp384Sqr(H)
        HHH  == fp384Mul(H, HH)
        RR   == fp384Sub(S2, S1)
        V    == fp384Mul(U1, HH)
        t2   == fp384Sqr(RR)
        t3   == fp384Add(V, V)
        t4   == fp384Sub(t2, HHH)
        m1   == [st EXCEPT ![p].x = fp384Sub(t4, t3)]
        t5   == fp384Sub(V, m1[p].x)
        t6   == fp384Mul(S1, HHH)
        t7   == fp384Mul(RR, t5)
        m2   == [m1 EXCEPT ![p].y = fp384Sub(t7, t6)]
        t8   == fp384Mul(m2[r].z, H)
    IN  [m2 EXCEPT ![p].z = fp384Mul(m2[q].z, t8)]

\* add that stores Z1*Z2 in the receiver first and multiplies it by H last.
addEarlyZ(st, p, q, r) ==
    IF jIsZero(st[q]) THEN [st EXCEPT ![p] = st[r]]
    ELSE IF jIsZero(st[r]) THEN [st EXCEPT ![p] = st[q]]
    ELSE
    LET m0   == [st EXCEPT ![p].z = fp384Mul(st[q].z, st[r].z)]
        Z1Z1 == fp384Sqr(m0[q].z)
        Z2Z2 == fp384Sqr(m0[r].z)
        U1   == fp384Mul(m0[q].x, Z2Z2)
        U2   == fp384Mul(m0[r].x, Z1Z1)
        t0   == fp384Mul(m0[r].z, Z2Z2)
        S1   == fp384Mul(m0[q].y, t0)
        t1   == fp384Mul(m0[q].z, Z1Z1)
        S2   == fp384Mul(m0[r].y, t1)
        H    == fp384Sub(U2, U1)
        HH   == fp384Sqr(H)
        HHH  == fp384Mul(H, HH)
        RR   == fp384Sub(S2, S1)
        V    == fp384Mul(U1, HH)
        t2   == fp384Sqr(RR)
        t3   == fp384Add(V, V)
        t4   == fp384Sub(t2, HHH)
        m1   == [m0 EXCEPT ![p].x = fp384Sub(t4, t3)]
        t5   == fp384Sub(V, m1[p].x)
        t6   == fp384Mul(S1, HHH)
        t7   == fp384Mul(RR, t5)
        m2   == [m1 EXCEPT ![p].y = fp384Sub(t7, t6)]
    IN  [m2 EXCEPT ![p].z = fp384Mul(m2[p].z, H)]

add(st, p, q, r) ==
    IF jIsZero(st[q]) THEN [st EXCEPT ![p] = st[r]]
    ELSE IF jIsZero(st[r]) THEN [st EXCEPT ![p] = st[q]]
    ELSE
    LET Z1Z1 == fp384Sqr(st[q].z)
        Z2Z2 == fp384Sqr(st[r].z)
        U1   == fp384Mul(st[q].x, Z2Z2)
        U2   == fp384Mul(st[r].x, Z1Z1)
        t0   == fp384Mul(st[r].z, Z2Z2)
        S1   == fp384Mul(st[q].y, t0)
        t1   == fp384Mul(st[q].z, Z1Z1)
        S2   == fp384Mul(st[r].y, t1)
        H    == fp384Sub(U2, U1)
        HH   == fp384Sqr(H)
        HHH  == fp384Mul(H, HH)
        RR   == fp384Sub(S2, S1)
        V    == fp384Mul(U1, HH)
        t2   == fp384Sqr(RR)
        t3   == fp384Add(V, V)
        t4   == fp384Sub(t2, HHH)
        m1   == [st EXCEPT ![p].x = fp384Sub(t4, t3)]
        t5   == fp384Sub(V, m1[p].x)
        t6   == fp384Mul(S1, HHH)
        t7   == fp384Mul(RR, t5)
        m2   == [m1 EXCEPT ![p].y = fp384Sub(t7, t6)]
        t8   == fp384Mul(m2[r].z, H)
    IN  [m2 EXCEPT ![p].z = fp384Mul(m2[q].z, t8)]

\* The intermediate H = U2 - U1 of add (lines 152-160).
addH(Q, R) ==
    LET Z1Z1 == fp384Sqr(Q.z)
        Z2Z2 == fp384Sqr(R.z)
        U1   == fp384Mul(Q.x, Z2Z2)
        U2   == fp384Mul(R.x, Z1Z1)
    IN  fp384Sub(U2, U1)

\* mixadd that treats every operand with equal x as the negation.
mixaddNoDouble(st, p, q, R) ==
    IF jIsZero(st[q]) THEN [st EXCEPT ![p] = toJacobian(R)]
    ELSE IF aIsZero(R) THEN [st EXCEPT ![p] = st[q]]
    ELSE
    LET z1z1 == fp384Sqr(st[q].z)
        u2   == fp384Mul(R.x, z1z1)
        s2A  == fp384Mul(R.y, st[q].z)
        s2   == fp384Mul(s2A, z1z1)
    IN  IF st[q].x = u2
        THEN [st EXCEPT ![p] = toJacobian(zeroPoint)]
        ELSE
        LET h    == fp384Sub(u2, st[q].x)
            m1   == [st EXCEPT ![p].z = fp384Mul(h, st[q].z)]
            r    == fp384Sub(s2, m1[q].y)
            h2   == fp384Sqr(h)
            h3   == fp384Mul(h2, h)
            h3y1 == fp384Mul(h3, m1[q].y)
            h2x1 == fp384Mul(h2, m1[q].x)
            m2   == [m1 EXCEPT ![p].x = fp384Sqr(r)]
            m3   == [m2 EXCEPT ![p].x = fp384Sub(m2[p].x, h3)]
            m4   == [m3 EXCEPT ![p].x = fp384Sub(m3[p].x, h2x1)]
            m5   == [m4 EXCEPT ![p].x = fp384Sub(m4[p].x, h2x1)]
            m6   == [m5 EXCEPT ![p].y = fp384Sub(h2x1, m5[p].x)]
            m7   == [m6 EXCEPT ![p].y = fp384Mul(m6[p].y, r)]
        IN  [m7 EXCEPT ![p].y = fp384Sub(m7[p].y, h3y1)]

mixadd(st, p, q, R) ==
    IF jIsZero(st[q]) THEN [st EXCEPT ![p] = toJacobian(R)]
    ELSE IF aIsZero(R) THEN [st EXCEPT ![p] = st[q]]
    ELSE
    LET z1z1 == fp384Sqr(st[q].z)
        u2   == fp384Mul(R.x, z1z1)
        s2A  == fp384Mul(R.y, st[q].z)
        s2   == fp384Mul(s2A, z1z1)
    IN  IF st[q].x = u2
        THEN IF st[q].y # s2
             THEN [st EXCEPT ![p] = toJacobian(zeroPoint)]
             ELSE [st EXCEPT ![p] = double(st[q])]
        ELSE
        LET h    == fp384Sub(u2, st[q].x)
            m1   == [st EXCEPT ![p].z = fp384Mul(h, st[q].z)]
            r    == fp384Sub(s2, m1[q].y)
            h2   == fp384Sqr(h)
            h3   == fp384Mul(h2, h)
            h3y1 == fp384Mul(h3, m1[q].y)
            h2x1 == fp384Mul(h2, m1[q].x)
            m2   == [m1 EXCEPT ![p].x = fp384Sqr(r)]
            m3   == [m2 EXCEPT ![p].x = fp384Sub(m2[p].x, h3)]
            m4   == [m3 EXCEPT ![p].x = fp384Sub(m3[p].x, h2x1)]
            m5   == [m4 EXCEPT ![p].x = fp384Sub(m4[p].x, h2x1)]
            m6   == [m5 EXCEPT ![p].y = fp384Sub(h2x1, m5[p].x)]
            m7   == [m6 EXCEPT ![p].y = fp384Mul(m6[p].y, r)]
        IN  [m7 EXCEPT ![p].y = fp384Sub(m7[p].y, h3y1)]

\* completeAdd with step 34 computed as t0 + t2.
completeAddStep34(st, p, q, r) ==
    LET v01  == fp384Mul(st[q].x, st[r].x)
        v02  == fp384Mul(st[q].y, st[r].y)
        v03  == fp384Mul(st[q].z, st[r].z)
        v04  == fp384Add(st[q].x, st[q].y)
        v05  == fp384Add(st[r].x, st[r].y)
        v06  == fp384Mul(v04, v05)
        v07  == fp384Add(v01, v02)
        v08  == fp384Sub(v06, v07)
        v09  == fp384Add(st[q].y, st[q].z)
        v10  == fp384Add(st[r].y, st[r].z)
        v11  == fp384Mul(v09, v10)
        v12  == fp384Add(v02, v03)
        v13  == fp384Sub(v11, v12)
        v14  == fp384Add(st[q].x, st[q].z)
        v15  == fp384Add(st[r].x, st[r].z)
        v16  == fp384Mul(v14, v15)
        v17  == fp384Add(v01, v03)
        v18  == fp384Sub(v16, v17)
        v19  == fp384Mul(bb, v03)
        v20  == fp384Sub(v18, v19)
        v21  == fp384Add(v20, v20)
        v22  == fp384Add(v20, v21)
        v23  == fp384Sub(v02, v22)
        v24  == fp384Add(v02, v22)
        v25  == fp384Mul(bb, v18)
        v26  == fp384Add(v03, v03)
        v27  == fp384Add(v26, v03)
        v28  == fp384Sub(v25, v27)
        v29  == fp384Sub(v28, v01)
        v30  == fp384Add(v29, v29)
        v31  == fp384Add(v30, v29)
        v32  == fp384Add(v01, v01)
        v33  == fp384Add(v32, v01)
        v34  == fp384Add(v33, v27)
        v35  == fp384Mul(v13, v31)
        v36  == fp384Mul(v34, v31)
        v37  == fp384Mul(v24, v23)
        v38  == fp384Add(v37, v36)
        v39  == fp384Mul(v08, v24)
        v40  == fp384Sub(v39, v35)
        v41  == fp384Mul(v13, v23)
        v42  == fp384Mul(v08, v34)
        v43  == fp384Add(v41, v42)
    IN  [st EXCEPT ![p] = [x |-> v40, y |-> v38, z |-> v43]]

\* Step k of the 43-step sequence is vk; the receiver is written last.
completeAdd(st, p, q, r) ==
    LET v01  == fp384Mul(st[q].x, st[r].x)
        v02  == fp384Mul(st[q].y, st[r].y)
        v03  == fp384Mul(st[q].z, st[r].z)
        v04  == fp384Add(st[q].x, st[q].y)
        v05  == fp384Add(st[r].x, st[r].y)
        v06  == fp384Mul(v04, v05)
        v07  == fp384Add(v01, v02)
        v08  == fp384Sub(v06, v07)
        v09  == fp384Add(st[q].y, st[q].z)
        v10  == fp384Add(st[r].y, st[r].z)
        v11  == fp384Mul(v09, v10)
        v12  == fp384Add(v02, v03)
        v13  == fp384Sub(v11, v12)
        v14  == fp384Add(st[q].x, st[q].z)
        v15  == fp384Add(st[r].x, st[r].z)
        v16  == fp384Mul(v14, v15)
        v17  == fp384Add(v01, v03)
        v18  == fp384Sub(v16, v17)
        v19  == fp384Mul(bb, v03)
        v20  == fp384Sub(v18, v19)
        v21  == fp384Add(v20, v20)
        v22  == fp384Add(v20, v21)
        v23  == fp384Sub(v02, v22)
        v24  == fp384Add(v02, v22)
        v25  == fp384Mul(bb, v18)
        v26  == fp384Add(v03, v03)
        v27  == fp384Add(v26, v03)
        v28  == fp384Sub(v25, v27)
        v29  == fp384Sub(v28, v01)
        v30  == fp384Add(v29, v29)
        v31  == fp384Add(v30, v29)
        v32  == fp384Add(v01, v01)
        v33  == fp384Add(v32, v01)
        v34  == fp384Sub(v33, v27)
        v35  == fp384Mul(v13, v31)
        v36  == fp384Mul(v34, v31)
        v37  == fp384Mul(v24, v23)
        v38  == fp384Add(v37, v36)
        v39  == fp384Mul(v08, v24)
        v40  == fp384Sub(v39, v35)
        v41  == fp384Mul(v13, v23)
        v42  == fp384Mul(v08, v34)
        v43  == fp384Add(v41, v42)
    IN  [st EXCEPT ![p] = [x |-> v40, y |-> v38, z |-> v43]]

\* int32(1) << k; k <= 29 wherever it is used, so the shift does not wrap.
Shl32(k) == 2 ^ k

WLimit == 31

zeroJ == [x |-> 0, y |-> 0, z |-> 0]

\* t[i].add(&t[i-1], &_2P) on a fresh table entry.
addFresh(Q, R) == add([T |-> zeroJ, Q |-> Q, R |-> R], "T", "Q", "R")["T"]

RECURSIVE oddLoop(_, _, _, _)
oddLoop(t, step, i, s) ==
    IF i < s THEN oddLoop(Append(t, addFresh(t[i], step)), step, i + 1, s) ELSE t

\* oddMultiples whose loop adds P instead of 2P.
oddMultiplesStepP(ap, n) ==
    IF n > 1 /\ n < WLimit
    THEN LET P == toJacobian(ap)
             s == Shl32(n - 1)
         IN  oddLoop(<<P>>, P, 1, s)
    ELSE <<>>

\* The table is 1-based here: t[i+1] is the code's t[i].
oddMultiples(ap, n) ==
    IF n > 1 /\ n < WLimit
    THEN LET P   == toJacobian(ap)
             s   == Shl32(n - 1)
             _2P == double(P)
         IN  oddLoop(<<P>>, _2P, 1, s)
    ELSE <<>>

(***************************************************************************)
(* Reference group law on decoded affine coordinates, <<0, 0>> being the   *)
(* point at infinity (the oracle the tests compare against).               *)
(***************************************************************************)
RefA == Prime - 3

RefInv(v) == CHOOSE r \in Fp : (r * v) % Prime = 1

RefNeg(P) == <<P[1], (Prime - P[2]) % Prime>>

RefAdd(a, P, Q) ==
    IF P = <<0, 0>> THEN Q
    ELSE IF Q = <<0, 0>> THEN P
    ELSE IF P[1] = Q[1] /\ (P[2] + Q[2]) % Prime = 0 THEN <<0, 0>>
    ELSE
    LET lam == IF P[1] = Q[1]
               THEN ((3 * P[1] * P[1] + a) * RefInv((2 * P[2]) % Prime)) % Prime
               ELSE ((Q[2] + Prime - P[2]) * RefInv((Q[1] + Prime - P[1]) % Prime)) % Prime
        x3  == (lam * lam + 2 * Prime - P[1] - Q[1]) % Prime
        y3  == (lam * (P[1] + Prime - x3) + Prime - P[2]) % Prime
    IN  <<x3, y3>>

RECURSIVE RefMulA(_, _, _)
RefMulA(a, k, P) == IF k = 0 THEN <<0, 0>> ELSE RefAdd(a, RefMulA(a, k - 1, P), P)

RefMul(k, P) == RefMulA(RefA, k, P)

CurvePts(a) ==
    {c \in Fp \X Fp : (c[2] * c[2]) % Prime = (c[1] * c[1] * c[1] + a * c[1] + CurveB) % Prime}

\* The order of P on the curve with coefficient a: the least k >= 1 with kP
\* the point at infinity.
OrderA(a, P) == CHOOSE k \in 1 .. (Cardinality(CurvePts(a)) + 1) :
                    /\ RefMulA(a, k, P) = <<0, 0>>
                    /\ \A j \in 1 .. (k - 1) : RefMulA(a, j, P) # <<0, 0>>

Order(P) == OrderA(RefA, P)

(***************************************************************************)
(* Operand sets.                                                           *)
(***************************************************************************)
MaxIdCoord == 3

MaxW == 4

\* randomJacobian: (x z^2, y z^3, z) for a random z.
scaleJ(P, z1) ==
    LET z2 == fp384Sqr(z1)
        z3 == fp384Mul(z2, z1)
    IN  [x |-> fp384Mul(P.x, z2), y |-> fp384Mul(P.y, z3), z |-> fp384Mul(P.z, z1)]

AffPoints == {newAffinePoint(c[1], c[2]) : c \in CurvePts(RefA)}

AffInputs == AffPoints \cup {zeroPoint}

JacPoints == {scaleJ(toJacobian(A), z) : A \in AffPoints, z \in 1 .. (Prime - 1)}

JacIdents(k) == {[x |-> x, y |-> y, z |-> 0] : x \in 1 .. k, y \in 1 .. k}

JacOperands == JacPoints \cup JacIdents(MaxIdCoord)

JacAll == JacPoints \cup JacIdents(Prime - 1)

\* randomHomogeneous, and every encoding (0, y, 0) of the identity.
HomOperands == {jToHomogeneous(J) : J \in JacAll}

\* Points of odd order of the curve y^2 = x^3 + b (coefficient a = 0),
\* lifted with Z = 1.
HomA0 ==
    {toHomogeneous(newAffinePoint(c[1], c[2])) :
        c \in {d \in CurvePts(0) : OrderA(0, d) % 2 = 1}}

MaxSeqPoints == 3

\* The affine inputs of the operation sequences: the identity and the first
\* multiples of one point (every point is a multiple of it).
BasePoint == CHOOSE c \in CurvePts(RefA) : TRUE

SeqInputs ==
    {zeroPoint} \cup
    {newAffinePoint(RefMul(k, BasePoint)[1], RefMul(k, BasePoint)[2]) : k \in 1 .. MaxSeqPoints}

Windows == (0 .. MaxW) \cup {WLimit, WLimit + 1}

Names == {"T", "Q", "R"}

\* Receiver and operand storage of a call: distinct, or shared.
Aliasings ==
    {[p |-> "T", q |-> "Q", r |-> "R"], [p |-> "Q", q |-> "Q", r |-> "R"],
     [p |-> "R", q |-> "Q", r |-> "R"], [p |-> "T", q |-> "Q", r |-> "Q"],
     [p |-> "Q", q |-> "Q", r |-> "Q"]}

Call(op, p, q, r, n) == [op |-> op, p |-> p, q |-> q, r |-> r, n |-> n]

(***************************************************************************)
(* One call of one operation on fresh operands.                            *)
(***************************************************************************)
Init ==
    /\ call = Call("init", "T", "T", "T", 0)
    /\ pre = [n \in Names |-> zeroJ]
    /\ mem = [n \in Names |-> zeroJ]
    /\ aff = zeroPoint
    /\ tab = <<>>
    /\ misuse = FALSE

Add ==
    /\ call.op = "init"
    /\ \E al \in Aliasings, v1 \in JacOperands, v2 \in JacOperands :
          /\ al.q = al.r => v2 = v1
          /\ pre' = [T |-> zeroJ, Q |-> v1, R |-> v2]
          /\ mem' = add(pre', al.p, al.q, al.r)
          /\ call' = Call("add", al.p, al.q, al.r, 0)
    /\ UNCHANGED <<aff, tab, misuse>>

MixAdd ==
    /\ call.op = "init"
    /\ \E p \in {"T", "Q"}, v1 \in JacOperands, A \in AffInputs :
          /\ pre' = [T |-> zeroJ, Q |-> v1, R |-> zeroJ]
          /\ aff' = A
          /\ mem' = mixadd(pre', p, "Q", A)
          /\ call' = Call("mixadd", p, "Q", "Q", 0)
    /\ UNCHANGED <<tab, misuse>>

Double ==
    /\ call.op = "init"
    /\ \E v1 \in JacAll :
          /\ pre' = [T |-> zeroJ, Q |-> v1, R |-> zeroJ]
          /\ mem' = [pre' EXCEPT !["Q"] = double(v1)]
          /\ call' = Call("double", "Q", "Q", "Q", 0)
    /\ UNCHANGED <<aff, tab, misuse>>

CompleteAdd ==
    /\ call.op = "init"
    /\ \E al \in Aliasings, v1 \in HomOperands \cup HomA0, v2 \in HomOperands \cup HomA0 :
          /\ al.q = al.r => v2 = v1
          /\ pre' = [T |-> zeroJ, Q |-> v1, R |-> v2]
          /\ mem' = completeAdd(pre', al.p, al.q, al.r)
          /\ call' = Call("completeAdd", al.p, al.q, al.r, 0)
    /\ UNCHANGED <<aff, tab, misuse>>

OddMultiples ==
    /\ call.op = "init"
    /\ \E A \in AffInputs, w \in Windows :
          /\ aff' = A
          /\ tab' = oddMultiples(A, w)
          /\ call' = Call("oddMultiples", "T", "T", "T", w)
    /\ UNCHANGED <<pre, mem, misuse>>

Next == Add \/ MixAdd \/ Double \/ CompleteAdd \/ OddMultiples

Spec == Init /\ [][Next]_vars

(***************************************************************************)
(* Sequences of Jacobian operations on two registers, Q and R, that start  *)
(* from lifted affine inputs.  misuse records that add has been called on  *)
(* two non-identity operands representing the same point.                  *)
(***************************************************************************)
Regs == {"Q", "R"}

SameNonIdentity(Q, R) ==
    /\ ~jIsZero(Q)
    /\ ~jIsZero(R)
    /\ toAffine(Q) = toAffine(R)

InitSeq ==
    /\ call = Call("seq", "T", "T", "T", 0)
    /\ \E A \in SeqInputs, B \in SeqInputs :
          mem = [T |-> zeroJ, Q |-> toJacobian(A), R |-> toJacobian(B)]
    /\ pre = [n \in Names |-> zeroJ]
    /\ aff = zeroPoint
    /\ tab = <<>>
    /\ misuse = FALSE

SeqToJacobian ==
    /\ \E p \in Regs, A \in SeqInputs : mem' = [mem EXCEPT ![p] = toJacobian(A)]
    /\ UNCHANGED <<call, pre, aff, tab, misuse>>

SeqAdd ==
    /\ \E p \in Regs, q \in Regs, r \in Regs :
          /\ mem' = add(mem, p, q, r)
          /\ misuse' = (misuse \/ SameNonIdentity(mem[q], mem[r]))
    /\ UNCHANGED <<call, pre, aff, tab>>

SeqMixAdd ==
    /\ \E p \in Regs, q \in Regs, A \in SeqInputs : mem' = mixadd(mem, p, q, A)
    /\ UNCHANGED <<call, pre, aff, tab, misuse>>

SeqDouble ==
    /\ \E p \in Regs : mem' = [mem EXCEPT ![p] = double(mem[p])]
    /\ UNCHANGED <<call, pre, aff, tab, misuse>>

SeqNeg ==
    /\ \E p \in Regs : mem' = [mem EXCEPT ![p] = neg(mem[p])]
    /\ UNCHANGED <<call, pre, aff, tab, misuse>>

SeqCneg ==
    /\ \E p \in Regs, b \in 0 .. 1 : mem' = [mem EXCEPT ![p] = cneg(mem[p], b)]
    /\ UNCHANGED <<call, pre, aff, tab, misuse>>

SeqCmov ==
    /\ \E p \in Regs, q \in Regs, b \in 0 .. 1 :
          mem' = [mem EXCEPT ![p] = cmov(mem[p], mem[q], b)]
    /\ UNCHANGED <<call, pre, aff, tab, misuse>>

NextSeq ==
    SeqToJacobian \/ SeqAdd \/ SeqMixAdd \/ SeqDouble \/ SeqNeg \/ SeqCneg \/ SeqCmov

SpecSeq == InitSeq /\ [][NextSeq]_vars

(***************************************************************************)
(* Vocabulary of the properties.                                           *)
(***************************************************************************)
JRep(P) == aToInt(toAffine(P))

HRep(P) == aToInt(hToAffine(P))

OnCurveH(a, P) == hIsZero(P) \/ (P.z # 0 /\ HRep(P) \in CurvePts(a))

mixaddFresh(Q, A) == mixadd([T |-> zeroJ, Q |-> Q, R |-> zeroJ], "T", "Q", A)["T"]

completeAddFresh(Q, R) ==
    completeAdd([T |-> zeroJ, Q |-> Q, R |-> R], "T", "Q", "R")["T"]

One == montEncode(1)

WellFormed(P) ==
    /\ P.z = 0 <=> jIsZero(P)
    /\ P.z # 0 => JRep(P) \in CurvePts(RefA)

\* C1: completeAdd is total: for homogeneous operands on the curve (equal,
\* negated, either or both the identity (0, y, 0) included) the receiver
\* satisfies the homogeneous isZero when the sum is the identity, and
\* otherwise its toAffine is the reference sum.
C1_CompleteAddTotal ==
    call.op = "completeAdd" =>
        LET Q    == pre[call.q]
            R    == pre[call.r]
            got  == mem[call.p]
            want == RefAdd(RefA, HRep(Q), HRep(R))
        IN  (OnCurveH(RefA, Q) /\ OnCurveH(RefA, R)) =>
                IF want = <<0, 0>> THEN hIsZero(got) ELSE HRep(got) = want

C1_Witness ==
    /\ call.op = "completeAdd"
    /\ OnCurveH(RefA, pre.Q) /\ OnCurveH(RefA, pre.R)
    /\ ~hIsZero(pre.Q) /\ pre.Q.z # One
    /\ pre.Q # pre.R /\ HRep(pre.Q) = HRep(pre.R)
    /\ call.q = "Q" /\ call.r = "R"
    /\ HRep(mem[call.p]) = RefAdd(RefA, HRep(pre.Q), HRep(pre.Q))
    /\ HRep(mem[call.p]) # <<0, 0>>

\* C2: add on its stated domain: for non-identity operands that are neither
\* equal nor negated as points, toAffine of the receiver is the reference
\* sum; if Q is the identity the receiver is R, coordinate for coordinate,
\* and if R is the identity and Q is not, the receiver is Q.
C2_AddOnDomain ==
    call.op = "add" =>
        LET Q   == pre[call.q]
            R   == pre[call.r]
            got == mem[call.p]
        IN  /\ jIsZero(Q) => got = R
            /\ (~jIsZero(Q) /\ jIsZero(R)) => got = Q
            /\ (~jIsZero(Q) /\ ~jIsZero(R) /\ JRep(Q) # JRep(R) /\ JRep(Q) # RefNeg(JRep(R)))
                   => JRep(got) = RefAdd(RefA, JRep(Q), JRep(R))

C2_Witness ==
    /\ call.op = "add"
    /\ ~jIsZero(pre[call.q]) /\ ~jIsZero(pre[call.r])
    /\ pre[call.q].z # One /\ pre[call.r].z # One
    /\ JRep(pre[call.q]) # JRep(pre[call.r])
    /\ JRep(pre[call.q]) # RefNeg(JRep(pre[call.r]))
    /\ JRep(mem[call.p]) = RefAdd(RefA, JRep(pre[call.q]), JRep(pre[call.r]))
    /\ mem[call.p].z # 0

\* C3: mixadd is total; its cases in the order the text gives them: Q the
\* identity: R lifted to Jacobian; else R the identity: Q, coordinate for
\* coordinate; else Q and R the same point: double(Q); else Q = -R: the
\* receiver satisfies isZero; otherwise toAffine is the reference sum.
C3_MixaddTotal ==
    call.op = "mixadd" =>
        LET Q   == pre[call.q]
            got == mem[call.p]
        IN  IF jIsZero(Q) THEN got = toJacobian(aff)
            ELSE IF aIsZero(aff) THEN got = Q
            ELSE IF JRep(Q) = aToInt(aff) THEN got = double(Q)
            ELSE IF JRep(Q) = RefNeg(aToInt(aff)) THEN jIsZero(got)
            ELSE JRep(got) = RefAdd(RefA, JRep(Q), aToInt(aff))

C3_Witness ==
    /\ call.op = "mixadd"
    /\ ~jIsZero(pre.Q) /\ pre.Q.z # One
    /\ ~aIsZero(aff)
    /\ JRep(pre.Q) = aToInt(aff)
    /\ mem[call.p] = double(pre.Q)
    /\ JRep(mem[call.p]) = RefMul(2, aToInt(aff))

C5_AddOnEqualOperands ==
    call.op = "add" =>
        LET Q   == pre[call.q]
            R   == pre[call.r]
            got == mem[call.p]
        IN  SameNonIdentity(Q, R) => (addH(Q, R) = 0 /\ toAffine(got) = zeroPoint)

C5_Witness ==
    /\ call.op = "add"
    /\ call.q # call.r
    /\ pre.Q # pre.R
    /\ SameNonIdentity(pre.Q, pre.R)
    /\ toAffine(mem[call.p]) = zeroPoint

\* C6 as stated: after any sequence of operations every Jacobian register
\* is well formed: Z = 0 exactly when isZero holds, and a register with
\* Z # 0 represents a point of the curve.
C6_AlwaysWellFormed ==
    call.op = "seq" => \A n \in Regs : WellFormed(mem[n])

\* C6 amended: the registers are well formed after any sequence in which add
\* was never called on two non-identity operands representing the same
\* point (calls on mutually negated operands included).
C6_WellFormedOnDomain ==
    (call.op = "seq" /\ ~misuse) => \A n \in Regs : WellFormed(mem[n])

C6_Witness ==
    /\ call.op = "seq"
    /\ ~misuse
    /\ jIsZero(mem.Q) /\ mem.Q.x # One
    /\ mem.R.z # 0 /\ mem.R.z # One

\* C7: P + (-P): add on a Jacobian P and its copy after neg() leaves a
\* receiver for which the Jacobian isZero holds; completeAdd on a
\* homogeneous P and its copy after cneg(1) leaves a receiver for which the
\* homogeneous isZero holds.
C7_AdditiveInverse ==
    /\ (call.op = "add" /\ ~jIsZero(pre[call.q]) /\ pre[call.r] = neg(pre[call.q]))
           => jIsZero(mem[call.p])
    /\ (call.op = "completeAdd" /\ OnCurveH(RefA, pre[call.q]) /\ ~hIsZero(pre[call.q])
            /\ pre[call.r] = hCneg(pre[call.q], 1))
           => hIsZero(mem[call.p])

C7_Witness ==
    /\ call.op = "add"
    /\ ~jIsZero(pre.Q) /\ pre.Q.z # One
    /\ call.q = "Q" /\ call.r = "R"
    /\ pre.R = neg(pre.Q)
    /\ jIsZero(mem[call.p])
    /\ mem[call.p].x # One

\* C8: double is valid for all P: for P with Z # 0 toAffine of the receiver
\* is the reference doubling and equals toAffine of completeAdd on the
\* homogeneous P; for every encoding (x, y, 0), x and y nonzero, of the
\* identity the receiver satisfies isZero again.
C8_DoubleValidForAll ==
    call.op = "double" =>
        LET P   == pre.Q
            got == mem.Q
        IN  /\ jIsZero(P) => jIsZero(got)
            /\ P.z # 0 =>
                  /\ JRep(got) = RefAdd(RefA, JRep(P), JRep(P))
                  /\ JRep(got) = HRep(completeAddFresh(jToHomogeneous(P), jToHomogeneous(P)))

\* C9: aliasing: the receiver of add, mixadd and completeAdd holds what the
\* call leaves in a receiver that is separate storage, whether or not it is
\* the storage of Q or of R; storage other than the receiver is unchanged.
C9_AliasingSafe ==
    /\ call.op = "add" => mem[call.p] = addFresh(pre[call.q], pre[call.r])
    /\ call.op = "mixadd" => mem[call.p] = mixaddFresh(pre[call.q], aff)
    /\ call.op = "completeAdd" => mem[call.p] = completeAddFresh(pre[call.q], pre[call.r])
    /\ call.op \in {"add", "mixadd", "completeAdd"} =>
           \A n \in Names \ {call.p} : mem[n] = pre[n]

C9_Witness ==
    /\ call.op = "add"
    /\ call.p = "Q" /\ call.q = "Q" /\ call.r = "R"
    /\ ~jIsZero(pre.Q) /\ ~jIsZero(pre.R)
    /\ pre.Q.z # One /\ pre.R.z # One
    /\ JRep(pre.Q) # JRep(pre.R)
    /\ mem.Q # pre.Q
    /\ mem.Q = addFresh(pre.Q, pre.R)
    /\ mem.R = pre.R

\* C10 as stated: the sequence of completeAdd is the addition law of a
\* curve with coefficient a = 0: for operands on y^2 = x^3 + b the receiver
\* represents their sum on that curve.
C10_LawOfAZero ==
    call.op = "completeAdd" =>
        LET Q == pre[call.q]
            R == pre[call.r]
        IN  (OnCurveH(0, Q) /\ OnCurveH(0, R)) =>
                HRep(mem[call.p]) = RefAdd(0, HRep(Q), HRep(R))

\* C10 amended: the sequence is the addition law of a curve with coefficient
\* a = -3: for operands on y^2 = x^3 - 3x + b the receiver represents their
\* sum on that curve, and the Jacobian double computes the doubling of the
\* same curve.
C10_LawOfAMinus3 ==
    /\ call.op = "completeAdd" =>
           LET Q    == pre[call.q]
               R    == pre[call.r]
               got  == mem[call.p]
               want == RefAdd(RefA, HRep(Q), HRep(R))
           IN  (OnCurveH(RefA, Q) /\ OnCurveH(RefA, R)) =>
                   /\ got.z = 0 <=> want = <<0, 0>>
                   /\ HRep(got) = want
    /\ (call.op = "double" /\ pre.Q.z # 0) =>
           JRep(mem.Q) = RefAdd(RefA, JRep(pre.Q), JRep(pre.Q))

C10_Witness ==
    /\ call.op = "completeAdd"
    /\ call.q = call.r
    /\ OnCurveH(RefA, pre.Q) /\ ~OnCurveH(0, pre.Q)
    /\ ~hIsZero(pre.Q)
    /\ HRep(mem[call.p]) = RefAdd(RefA, HRep(pre.Q), HRep(pre.Q))
    /\ HRep(mem[call.p]) # RefAdd(0, HRep(pre.Q), HRep(pre.Q))

====
